---- MODULE Spec2Model ----
(***************************************************************************)
(* Model of fast-scrap's scrape() (src/src/scraper.js).                     *)
(*                                                                         *)
(* scrape is one async function.  Between two awaits its code runs without *)
(* interruption, so every action below is one such segment: the settling   *)
(* (fulfilment or rejection) of the awaited browser operation followed by   *)
(* the code that runs up to the next await, the catch and finally blocks    *)
(* included.  The browser operations themselves belong to puppeteer; each   *)
(* one may fulfil or reject.                                               *)
(***************************************************************************)
EXTENDS Integers, Sequences, FiniteSets, TLC

\* ---------------------------------------------------------------- bounds
MaxConc == 2        \* call slots that may be in flight together
MaxCalls == 2       \* calls started in one behaviour
MaxRequests == 2    \* requests one page issues

Calls == 1..MaxConc

\* ------------------------------------------------------------- JS values
Undefined == "<undefined>"
Null == "<null>"

\* JS truthiness over the values the options carry (strings, undefined, null)
Truthy(v) == v \notin {Undefined, Null, ""}

\* an options.proxy argument: omitted, null, or an object with optional fields
ProxyObject(url, user, pwd) ==
  [kind |-> "object", url |-> url, user |-> user, pwd |-> pwd]

ProxyOmitted == [kind |-> "undefined", url |-> Undefined, user |-> Undefined, pwd |-> Undefined]

ProxyNull == [kind |-> "null", url |-> Undefined, user |-> Undefined, pwd |-> Undefined]

\* parameter default `proxy = {}`: applies to an omitted argument only
ProxyParam(arg) ==
  IF arg.kind = "undefined" THEN ProxyObject(Undefined, Undefined, Undefined) ELSE arg

\* parameter default `recaptchaApiKey = null`
KeyParam(arg) == IF arg = Undefined THEN Null ELSE arg

\* optional chaining proxy?.f
OptField(p, f) == IF p.kind = "object" THEN p[f] ELSE Undefined

\* ------------------------------------------------------------ the inputs
ReachableUrl == "https://up.example"
UnreachableUrl == "https://down.example"
Urls == {ReachableUrl, UnreachableUrl}
Reachable(url) == url = ReachableUrl

ProxyArgs ==
  { ProxyOmitted, ProxyNull,
    ProxyObject("http://proxy:8080", Undefined, Undefined),
    ProxyObject("http://proxy:8080", Undefined, "secret"),
    ProxyObject("http://proxy:8080", "alice", "secret"),
    ProxyObject("http://proxy:8080", "alice", Undefined),
    ProxyObject("http://proxy:8080", "", "secret"),
    ProxyObject(Undefined, "alice", "secret"),
    ProxyObject("", "alice", "secret") }

KeyArgs == {Undefined, Null, "", "2captcha-key"}

Options == [url : Urls, proxy : ProxyArgs, recaptchaApiKey : KeyArgs]

\* the options of the runs with overlapping calls and with page requests
PlainOptions ==
  [ url : {ReachableUrl},
    proxy : {ProxyOmitted, ProxyObject("http://proxy:8080", "alice", "secret")},
    recaptchaApiKey : {Undefined, "2captcha-key"} ]

Contents == {"<html><body>a</body></html>", "<html><body>b</body></html>"}

ResourceTypes == {"document", "script", "xhr", "image", "stylesheet", "font", "media"}

\* ------------------------------------------------------------- plugins
Plugin(name, token) == [name |-> name, token |-> token]

\* module load: puppeteer.use(Adblocker), use(Stealth), use(UserAgent)
ModulePlugins ==
  << Plugin("adblocker", Undefined), Plugin("stealth", Undefined),
     Plugin("anonymize-ua", Undefined) >>

\* puppeteer.use(plugin): the registry is process-wide and only grows
use(registry, plugin) == Append(registry, plugin)

RecaptchaPlugin(key) == Plugin("recaptcha", key)

\* --------------------------------------------------------- launch flags
userAgent ==
  "Mozilla/5.0 (Windows NT 10.0; Win64; x64) AppleWebKit/537.36 (KHTML, like Gecko) Chrome/91.0.4472.124 Safari/537.36"

\* an element of args: a literal, or a template literal `text${value}`
Flag(text, value) == [text |-> text, value |-> value]

Literal(text) == Flag(text, Undefined)

\* the elements of args before the proxy flag
FixedArgs ==
  << Literal("--disable-accelerated-2d-canvas"), Literal("--no-zygote"),
     Literal("--no-first-run"), Literal("--disable-dev-shm-usage"),
     Literal("--no-sandbox"), Literal("--disable-setuid-sandbox"),
     Literal("--window-position=0,0"), Literal("--window-size=1280,720"),
     Literal("--disable-infobars"), Literal("--lang=en-US,en;q=0.9"),
     Flag("--user-agent=", userAgent),
     Literal("--ignore-certificate-errors"),
     Literal("--ignore-certificate-errors-spki-list"),
     Literal("--disable-extensions"), Literal("--disable-default-apps"),
     Literal("--disable-component-extensions-with-background-pages"),
     Literal("--disable-web-security"),
     Literal("--disable-blink-features=AutomationControlled") >>

\* proxy?.url ? `--proxy-server=${proxy.url}` : ''
ProxyServerFlag(proxy) ==
  IF Truthy(OptField(proxy, "url"))
    THEN Flag("--proxy-server=", proxy.url)
    ELSE Literal("")

\* [...].filter(Boolean): the empty string is dropped
RECURSIVE FilterBoolean(_)
FilterBoolean(s) ==
  IF s = <<>> THEN <<>>
  ELSE IF Head(s).text = "" THEN FilterBoolean(Tail(s))
       ELSE <<Head(s)>> \o FilterBoolean(Tail(s))

LaunchArgs(proxy) ==
  FilterBoolean(FixedArgs \o <<ProxyServerFlag(proxy)>>)

\* -------------------------------------------------------- request filter
blockedResources == {"image", "stylesheet", "font", "media"}

\* the listener with 'media' missing from its list
RequestHandlerMediaPasses(resourceType) ==
  IF resourceType \in {"image", "stylesheet", "font"} THEN "abort" ELSE "continue"

\* the 'request' listener: abort a blocked type, continue any other
RequestHandler(resourceType) ==
  IF resourceType \in blockedResources THEN "abort" ELSE "continue"

\* ------------------------------------------------------------------ state
VARIABLES
  plugins,   \* the process-wide plugin registry of puppeteer-extra
  started,   \* calls of scrape started so far
  call       \* per slot: the state of the call of scrape running in it

vars == <<plugins, started, call>>

Pending == [type |-> "pending", value |-> Undefined]
Return(v) == [type |-> "return", value |-> v]
Throw(e) == [type |-> "throw", value |-> e]

IdleCall ==
  [ pc |-> "idle",
    url |-> Undefined, proxy |-> ProxyOmitted, recaptchaApiKey |-> Null,
    browser |-> "undefined",      \* `let browser`: undefined, or a browser open/closed
    launchArgs |-> <<>>,          \* args handed to puppeteer.launch
    launchPlugins |-> <<>>,       \* the registry puppeteer.launch worked with
    invoked |-> <<>>,             \* operations called, in order
    completed |-> <<>>,           \* operations that fulfilled, in order
    thrown |-> <<>>,              \* operations that rejected, in order
    authCalls |-> <<>>,           \* arguments of page.authenticate
    interception |-> FALSE,       \* page.setRequestInterception(true) took effect
    listeners |-> 0,              \* 'request' listeners on the page
    requests |-> <<>>,            \* requests the page issued, with their decisions
    log |-> <<>>,                 \* console.error lines
    completion |-> Pending,       \* what try/catch decided: return html / return null
    outcome |-> Pending ]         \* what the caller's promise settled with

Init ==
  /\ plugins = ModulePlugins
  /\ started = 0
  /\ call = [c \in Calls |-> IdleCall]

\* ------------------------------------------------------- shared segments
\* calling an operation and suspending on its promise
Invoke(cs, op) == [cs EXCEPT !.pc = op, !.invoked = Append(@, op)]

Fulfilled(cs, op) == [cs EXCEPT !.completed = Append(@, op)]

\* the promise of the call settles: the async function is over
Settle(cs, result) == [cs EXCEPT !.pc = "done", !.outcome = result]

\* a cleanup that runs on the success path only
FinallyOnSuccessOnly(cs) ==
  IF cs.browser # "undefined" /\ cs.thrown = <<>>
    THEN Invoke(cs, "close")
    ELSE Settle(cs, cs.completion)

\* finally { if (browser) await browser.close() }
Finally(cs) ==
  IF cs.browser # "undefined" THEN Invoke(cs, "close") ELSE Settle(cs, cs.completion)

\* catch (error) { console.error(url); console.error(error); return null }
\* followed by the finally block up to its await
Catch(cs, op) ==
  Finally([cs EXCEPT
    !.thrown = Append(@, op),
    !.log = @ \o << <<"Scrape error URL:", cs.url>>, <<"Scrape error:", op>> >>,
    !.completion = Return(Null)])

\* page.authenticate with the two credentials swapped
AfterNewPageSwapped(cs) ==
  IF Truthy(OptField(cs.proxy, "url")) /\ Truthy(OptField(cs.proxy, "user"))
    THEN [Invoke(cs, "authenticate") EXCEPT
            !.authCalls = Append(@, [username |-> cs.proxy.pwd,
                                      password |-> cs.proxy.user])]
    ELSE Invoke(cs, "setExtraHTTPHeaders")

\* a guard that tests proxy?.user alone
AfterNewPageUserOnly(cs) ==
  IF Truthy(OptField(cs.proxy, "user"))
    THEN [Invoke(cs, "authenticate") EXCEPT
            !.authCalls = Append(@, [username |-> cs.proxy.user,
                                      password |-> cs.proxy.pwd])]
    ELSE Invoke(cs, "setExtraHTTPHeaders")

\* `if (proxy?.url && proxy?.user) await page.authenticate(...)` then onwards
AfterNewPage(cs) ==
  IF Truthy(OptField(cs.proxy, "url")) /\ Truthy(OptField(cs.proxy, "user"))
    THEN [Invoke(cs, "authenticate") EXCEPT
            !.authCalls = Append(@, [username |-> cs.proxy.user,
                                      password |-> cs.proxy.pwd])]
    ELSE Invoke(cs, "setExtraHTTPHeaders")

\* a guard that tests for null alone, so that an empty key counts as a key
AfterWaitForSelectorNullTest(cs) ==
  IF cs.recaptchaApiKey # Null
    THEN Invoke(cs, "solveRecaptchas")
    ELSE Invoke(cs, "content")

\* `if (recaptchaApiKey) await page.solveRecaptchas()` then onwards
AfterWaitForSelector(cs) ==
  IF Truthy(cs.recaptchaApiKey)
    THEN Invoke(cs, "solveRecaptchas")
    ELSE Invoke(cs, "content")

\* ---------------------------------------------------------------- actions
\* scrape(options) up to `await puppeteer.launch(...)`
Start(c, options) ==
  /\ call[c].pc \in {"idle", "done"}
  /\ started < MaxCalls
  /\ started' = started + 1
  /\ LET key == KeyParam(options.recaptchaApiKey)
         cs == [IdleCall EXCEPT !.url = options.url,
                                !.proxy = ProxyParam(options.proxy),
                                !.recaptchaApiKey = key]
     IN \/ /\ plugins' = IF Truthy(key) THEN use(plugins, RecaptchaPlugin(key))
                                         ELSE plugins
           /\ call' = [call EXCEPT ![c] =
                [Invoke(cs, "launch") EXCEPT
                   !.launchArgs = LaunchArgs(cs.proxy),
                   !.launchPlugins = plugins']]
        \/ \* RecaptchaPlugin(...) or puppeteer.use throws
           /\ Truthy(key)
           /\ plugins' = plugins
           /\ call' = [call EXCEPT ![c] = Catch(Invoke(cs, "use"), "use")]

\* an awaited operation rejects: catch, then finally
Reject(c, op) ==
  /\ call[c].pc = op
  /\ call' = [call EXCEPT ![c] = Catch(call[c], op)]
  /\ UNCHANGED <<plugins, started>>

\* an awaited operation fulfils and the code runs on to the next await
Resolve(c, op, next) ==
  /\ call[c].pc = op
  /\ call' = [call EXCEPT ![c] = next]
  /\ UNCHANGED <<plugins, started>>

Launch(c) ==
  \/ Resolve(c, "launch",
       Invoke([Fulfilled(call[c], "launch") EXCEPT !.browser = "open"], "newPage"))
  \/ Reject(c, "launch")

NewPage(c) ==
  \/ Resolve(c, "newPage", AfterNewPage(Fulfilled(call[c], "newPage")))
  \/ Reject(c, "newPage")

Authenticate(c) ==
  \/ Resolve(c, "authenticate",
       Invoke(Fulfilled(call[c], "authenticate"), "setExtraHTTPHeaders"))
  \/ Reject(c, "authenticate")

SetExtraHTTPHeaders(c) ==
  \/ Resolve(c, "setExtraHTTPHeaders",
       Invoke(Fulfilled(call[c], "setExtraHTTPHeaders"), "setRequestInterception"))
  \/ Reject(c, "setExtraHTTPHeaders")

\* await page.setRequestInterception(true); page.on('request', handler); then
\* page.evaluateOnNewDocument(...)
SetRequestInterception(c) ==
  \/ Resolve(c, "setRequestInterception",
       Invoke([Fulfilled(call[c], "setRequestInterception") EXCEPT
                 !.interception = TRUE, !.listeners = @ + 1],
              "evaluateOnNewDocument"))
  \/ Reject(c, "setRequestInterception")

EvaluateOnNewDocument(c) ==
  \/ Resolve(c, "evaluateOnNewDocument",
       Invoke(Fulfilled(call[c], "evaluateOnNewDocument"), "createCDPSession"))
  \/ Reject(c, "evaluateOnNewDocument")

CreateCDPSession(c) ==
  \/ Resolve(c, "createCDPSession",
       Invoke(Fulfilled(call[c], "createCDPSession"), "setUserAgentOverride"))
  \/ Reject(c, "createCDPSession")

SetUserAgentOverride(c) ==
  \/ Resolve(c, "setUserAgentOverride",
       Invoke(Fulfilled(call[c], "setUserAgentOverride"), "goto"))
  \/ Reject(c, "setUserAgentOverride")

\* page.goto(url, {waitUntil: 'domcontentloaded', timeout: 60000}): an
\* unreachable host can only reject (network error or the 60 s timeout)
Goto(c) ==
  \/ /\ Reachable(call[c].url)
     /\ Resolve(c, "goto", Invoke(Fulfilled(call[c], "goto"), "waitForSelector"))
  \/ Reject(c, "goto")

WaitForSelector(c) ==
  \/ Resolve(c, "waitForSelector",
       AfterWaitForSelector(Fulfilled(call[c], "waitForSelector")))
  \/ Reject(c, "waitForSelector")

SolveRecaptchas(c) ==
  \/ Resolve(c, "solveRecaptchas",
       Invoke(Fulfilled(call[c], "solveRecaptchas"), "content"))
  \/ Reject(c, "solveRecaptchas")

\* const html = await page.content(); return html; then the finally block
Content(c) ==
  \/ \E html \in Contents :
       Resolve(c, "content",
         Finally([Fulfilled(call[c], "content") EXCEPT !.completion = Return(html)]))
  \/ Reject(c, "content")

\* a cleanup that swallows the rejection of browser.close()
CloseSwallowsError(c) ==
  \/ Resolve(c, "close",
       Settle([Fulfilled(call[c], "close") EXCEPT !.browser = "closed"],
              call[c].completion))
  \/ \E left \in {"open", "closed"} :
       Resolve(c, "close",
         Settle([call[c] EXCEPT !.thrown = Append(@, "close"), !.browser = left],
                call[c].completion))

\* await browser.close() inside finally.  When it fulfils, the call settles
\* with what try/catch decided.  Nothing catches its rejection, which becomes
\* the outcome of the call in place of that decision; a close that failed may
\* or may not have ended the browser
Close(c) ==
  \/ Resolve(c, "close",
       Settle([Fulfilled(call[c], "close") EXCEPT !.browser = "closed"],
              call[c].completion))
  \/ \E left \in {"open", "closed"} :
       Resolve(c, "close",
         Settle([call[c] EXCEPT !.thrown = Append(@, "close"), !.browser = left],
                Throw("close")))

\* the page issues a request: puppeteer emits 'request' to every listener
PageRequest(c, resourceType) ==
  /\ call[c].browser = "open"
  /\ \E i \in 1..Len(call[c].invoked) : call[c].invoked[i] = "goto"
  /\ Len(call[c].requests) < MaxRequests
  /\ call' = [call EXCEPT ![c].requests =
       Append(@, [resourceType |-> resourceType,
                  intercepted |-> call[c].interception,
                  decisions |-> [i \in 1..call[c].listeners |->
                                   RequestHandler(resourceType)]])]
  /\ UNCHANGED <<plugins, started>>

Step(c) ==
  \/ Launch(c)
  \/ NewPage(c)
  \/ Authenticate(c)
  \/ SetExtraHTTPHeaders(c)
  \/ SetRequestInterception(c)
  \/ EvaluateOnNewDocument(c)
  \/ CreateCDPSession(c)
  \/ SetUserAgentOverride(c)
  \/ Goto(c)
  \/ WaitForSelector(c)
  \/ SolveRecaptchas(c)
  \/ Content(c)
  \/ Close(c)

NoneRunning == \A d \in Calls : call[d].pc \in {"idle", "done"}

\* a caller that awaits each call before it starts the next
Next ==
  \/ \E options \in Options : NoneRunning /\ Start(1, options)
  \/ Step(1)

Spec == Init /\ [][Next]_vars

\* the same caller, with the requests of the loading page
NextFilter ==
  \/ \E options \in PlainOptions : NoneRunning /\ Start(1, options)
  \/ Step(1)
  \/ \E resourceType \in ResourceTypes : PageRequest(1, resourceType)

SpecFilter == Init /\ [][NextFilter]_vars

\* overlapping calls: any slot may start while others are suspended
NextConc ==
  \/ \E c \in Calls : \E options \in PlainOptions : Start(c, options)
  \/ \E c \in Calls : Step(c)

SpecConc == Init /\ [][NextConc]_vars

\* the awaiting caller, when every awaited browser operation settles
FairSpec == Init /\ [][Next]_vars /\ WF_vars(Step(1))

\* ------------------------------------------------------------- properties
Has(seq, x) == \E i \in 1..Len(seq) : seq[i] = x

Count(seq, x) == Cardinality({i \in 1..Len(seq) : seq[i] = x})

\* position of the first x in seq, 0 when absent
IndexOf(seq, x) ==
  IF Has(seq, x) THEN CHOOSE i \in 1..Len(seq) :
                        seq[i] = x /\ \A j \in 1..(i - 1) : seq[j] # x
  ELSE 0

Done(c) == call[c].pc = "done"

\* the operations inside the try block, plugin registration to page.content()
TryOps ==
  { "use", "launch", "newPage", "authenticate", "setExtraHTTPHeaders",
    "setRequestInterception", "evaluateOnNewDocument", "createCDPSession",
    "setUserAgentOverride", "goto", "waitForSelector", "solveRecaptchas",
    "content" }

FailedInTry(c) == \E op \in TryOps : Has(call[c].thrown, op)

BothProxyFields(c) ==
  /\ Truthy(OptField(call[c].proxy, "url"))
  /\ Truthy(OptField(call[c].proxy, "user"))

\* C1 as stated: every finished call, whichever step failed, called
\* browser.close() exactly once.
C1_ExactlyOneClose ==
  \A c \in Calls : Done(c) => Count(call[c].invoked, "close") = 1

\* C1 amended: a call never calls browser.close() more than once, and a finished
\* call has called it exactly once if its browser launch succeeded and not at
\* all if plugin registration or the launch failed.
C1_OneCloseIffLaunched ==
  \A c \in Calls :
    /\ Count(call[c].invoked, "close") <= 1
    /\ Done(c) =>
         Count(call[c].invoked, "close")
           = (IF Has(call[c].completed, "launch") THEN 1 ELSE 0)

\* a call whose navigation failed has finished after its one close
C1_Witness ==
  \E c \in Calls :
    /\ Done(c)
    /\ Has(call[c].thrown, "goto")
    /\ Count(call[c].invoked, "close") = 1

\* C2: once the caller has the outcome of a call, the browser that call
\* launched is not open any more.
C2_ClosedBeforeResult ==
  \A c \in Calls : Done(c) => call[c].browser # "open"

\* C3: a finished call in which an operation of the try block failed has
\* logged the URL and the cause once, retried nothing, and returned null.
C3_FailureReturnsNull ==
  \A c \in Calls :
    (Done(c) /\ FailedInTry(c)) =>
      /\ call[c].outcome = Return(Null)
      /\ \E op \in TryOps :
           call[c].log = << <<"Scrape error URL:", call[c].url>>,
                            <<"Scrape error:", op>> >>
      /\ \A op \in TryOps : Count(call[c].invoked, op) <= 1

\* C4: every request of the page was decided exactly once, aborted when its
\* type is image, stylesheet, font or media and continued otherwise.
C4_FilterDecidesOnce ==
  \A c \in Calls :
    \A i \in 1..Len(call[c].requests) :
      LET req == call[c].requests[i] IN
        /\ req.intercepted
        /\ Len(req.decisions) = 1
        /\ req.resourceType \in {"image", "stylesheet", "font", "media"}
             => req.decisions[1] = "abort"
        /\ req.resourceType \notin {"image", "stylesheet", "font", "media"}
             => req.decisions[1] = "continue"

\* a page that asked for a stylesheet and for a script
C4_Witness ==
  \E c \in Calls :
    /\ \E i \in 1..Len(call[c].requests) :
         call[c].requests[i].resourceType = "stylesheet"
    /\ \E i \in 1..Len(call[c].requests) :
         call[c].requests[i].resourceType = "script"

\* C5: with proxy.url and proxy.user set, page.authenticate is called with
\* username = proxy.user and password = proxy.pwd and nothing else, it has
\* fulfilled before page.goto is called, and page.goto is never called once
\* it rejected.
C5_AuthBeforeGoto ==
  \A c \in Calls :
    BothProxyFields(c) =>
      /\ Len(call[c].authCalls) <= 1
      /\ \A i \in 1..Len(call[c].authCalls) :
           /\ call[c].authCalls[i].username = call[c].proxy.user
           /\ call[c].authCalls[i].password = call[c].proxy.pwd
      /\ Has(call[c].invoked, "goto") =>
           /\ Len(call[c].authCalls) = 1
           /\ Has(call[c].completed, "authenticate")
           /\ IndexOf(call[c].invoked, "authenticate")
                < IndexOf(call[c].invoked, "goto")
      /\ Has(call[c].thrown, "authenticate") => ~Has(call[c].invoked, "goto")

\* a call with credentials has authenticated and gone on to navigate
C5_Witness ==
  \E c \in Calls :
    /\ BothProxyFields(c)
    /\ call[c].proxy.pwd = "secret"
    /\ call[c].authCalls = <<[username |-> "alice", password |-> "secret"]>>
    /\ Has(call[c].invoked, "goto")

\* C6: page.authenticate is called only when proxy.url and proxy.user are both
\* present, and is called as soon as the page exists when they are; the
\* --proxy-server flag is among the launch arguments exactly when proxy.url is
\* present, whatever proxy.user and proxy.pwd are.
C6_AuthIffUrlAndUser ==
  \A c \in Calls :
    /\ (Has(call[c].invoked, "authenticate") \/ call[c].authCalls # <<>>)
         => BothProxyFields(c)
    /\ (BothProxyFields(c) /\ Has(call[c].completed, "newPage"))
         => Has(call[c].invoked, "authenticate")
    /\ Has(call[c].invoked, "launch") =>
         /\ Has(call[c].launchArgs, Flag("--proxy-server=", OptField(call[c].proxy, "url")))
              <=> Truthy(OptField(call[c].proxy, "url"))
         /\ \A i \in 1..Len(call[c].launchArgs) :
              call[c].launchArgs[i].text = "--proxy-server="
                => Truthy(OptField(call[c].proxy, "url"))

\* a call with proxy.url and a password but no user went past page creation
\* with the proxy flag and without authenticating
C6_Witness ==
  \E c \in Calls :
    /\ Truthy(OptField(call[c].proxy, "url"))
    /\ ~Truthy(OptField(call[c].proxy, "user"))
    /\ call[c].proxy.pwd = "secret"
    /\ Has(call[c].invoked, "goto")
    /\ Has(call[c].launchArgs, Flag("--proxy-server=", call[c].proxy.url))
    /\ call[c].authCalls = <<>>

\* C7: without a key (null, undefined, empty) page.solveRecaptchas is never
\* called; with a key it is called at most once, only after page.goto and
\* page.waitForSelector fulfilled, exactly once when they have, and
\* page.content is called only after it fulfilled.
C7_SolveOnceBeforeContent ==
  \A c \in Calls :
    /\ ~Truthy(call[c].recaptchaApiKey) => ~Has(call[c].invoked, "solveRecaptchas")
    /\ Truthy(call[c].recaptchaApiKey) =>
         /\ Count(call[c].invoked, "solveRecaptchas") <= 1
         /\ Has(call[c].invoked, "solveRecaptchas") =>
              /\ Has(call[c].completed, "goto")
              /\ Has(call[c].completed, "waitForSelector")
         /\ Has(call[c].completed, "waitForSelector") =>
              Count(call[c].invoked, "solveRecaptchas") = 1
         /\ Has(call[c].invoked, "content") =>
              /\ Has(call[c].completed, "solveRecaptchas")
              /\ IndexOf(call[c].invoked, "solveRecaptchas")
                   < IndexOf(call[c].invoked, "content")

\* a call with a key returned the HTML after solving
C7_Witness ==
  \E c \in Calls :
    /\ Truthy(call[c].recaptchaApiKey)
    /\ Done(c)
    /\ call[c].outcome.type = "return"
    /\ call[c].outcome.value \in Contents
    /\ Count(call[c].completed, "solveRecaptchas") = 1

\* C8: the plugin registry a call launches with does not depend on other
\* calls: a call without a key launches with the module's three plugins and no
\* CAPTCHA plugin, a call with a key with those and its own CAPTCHA plugin.
C8_CallsIndependent ==
  \A c \in Calls :
    Has(call[c].invoked, "launch") =>
      call[c].launchPlugins =
        (IF Truthy(call[c].recaptchaApiKey)
           THEN use(ModulePlugins, RecaptchaPlugin(call[c].recaptchaApiKey))
           ELSE ModulePlugins)

\* C9: a finished call to an unreachable host has returned null and left no
\* browser open.
C9_UnreachableReturnsNull ==
  \A c \in Calls :
    (Done(c) /\ ~Reachable(call[c].url)) =>
      /\ call[c].outcome = Return(Null)
      /\ call[c].browser # "open"

\* every started call to an unreachable host finishes (no hang), given that
\* each awaited operation settles
UnreachableTerminates ==
  \A c \in Calls :
    (call[c].pc \notin {"idle", "done"} /\ ~Reachable(call[c].url)) ~> Done(c)

====
